---- MODULE Spec2Model ----
(***************************************************************************)
(* Water-loss dashboard: the live-reading injector (utils/live_data.py),   *)
(* the anomaly scorer (model/anomaly_detector.py) and the page script that *)
(* runs them on every refresh (app.py).                                    *)
(*                                                                         *)
(* A table (pandas DataFrame) is [columns |-> set of column names,         *)
(* rows |-> sequence of records whose fields are the columns].  Row        *)
(* positions are the RangeIndex labels read_csv gives.  Real quantities    *)
(* are exact: Pressure is counted in tenths, a risk_score is the fraction  *)
(* [num, den], and den = 0 stands for an undefined value (NaN).            *)
(***************************************************************************)
EXTENDS Integers, Sequences, FiniteSets, TLC

VARIABLES pc, csv, df, processed_df, raised, selected_zone, action, rendered

vars == <<pc, csv, df, processed_df, raised, selected_zone, action, rendered>>

(* ------------------------------ bounds -------------------------------- *)

\* longest table explored
MaxRows == 3
\* raw anomaly scores are drawn from -ScoreBound .. ScoreBound
ScoreBound == 2
\* the tier function is probed at every whole score 0 .. 100 and at the
\* scores up to ProbeSpread thousandths either side of it
ProbeSpread == 1

(* --------------------------- program constants ------------------------ *)

RangeLo == 0
RangeHi == 100
HighCut == 70
MediumCut == 40

\* app.py ZONE_LOCATIONS keys
ZONE_LOCATIONS == {"Z1", "Z2", "Z3"}

InputColumns == {"Zone_ID", "Date", "Water_Usage_Liters", "Pressure"}
FeatureColumns == {"Water_Usage_Liters", "Pressure"}

(* ------------------------------ tables -------------------------------- *)

EmptyFrame == [columns |-> {}, rows |-> <<>>]

Project(r, cols) == [c \in cols |-> r[c]]

\* the readings the explored tables are built from: the three rows of the
\* end-to-end scenario, a second zone repeating the first one's features,
\* and a reading between the extremes
Readings ==
    { [Zone_ID |-> "Z1", Date |-> 1, Water_Usage_Liters |-> 100, Pressure |-> 50],
      [Zone_ID |-> "Z1", Date |-> 1, Water_Usage_Liters |-> 105, Pressure |-> 51],
      [Zone_ID |-> "Z9", Date |-> 1, Water_Usage_Liters |-> 900, Pressure |-> 5],
      [Zone_ID |-> "Z9", Date |-> 1, Water_Usage_Liters |-> 100, Pressure |-> 50],
      [Zone_ID |-> "Z2", Date |-> 1, Water_Usage_Liters |-> 500, Pressure |-> 30] }

SeqsUpTo(S, n) == UNION { [1..k -> S] : k \in 0..n }

ColumnSets == { InputColumns,
                InputColumns \ {"Water_Usage_Liters"},
                InputColumns \ {"Pressure"} }

Tables ==
    { [columns |-> cols, rows |-> [i \in DOMAIN s |-> Project(s[i], cols)]] :
        cols \in ColumnSets, s \in SeqsUpTo(Readings, MaxRows) }

\* random.randint(-50, 200), random.uniform(-0.3, 0.2) in tenths, datetime.now()
UsageDeltas == {-50, 0, 200}
PressureDeltas == {-3, 2}
Now == {2}

(* --------------------- utils/live_data.py ----------------------------- *)

\* what a call leaves behind: the exception it raised ("none": it returned),
\* the table it returned, and the caller's table as the caller sees it after
Outcome(exc, ret, callers) == [raised |-> exc, ret |-> ret, caller |-> callers]

\* df.loc[idx, col] = v
SetCell(frame, idx, col, v) ==
    [frame EXCEPT !.rows[idx] = [c \in frame.columns |-> IF c = col THEN v ELSE @[c]]]

\* df.sample(1).index[0]: the labels one row can be drawn from
SampleIndex(frame) == 1..Len(frame.rows)

\* the body of generate_live_data, run on the frame `work`: the exception it
\* ends with and the frame as the statements executed so far have left it
live_data_body(work, idx, du, dp, now) ==
    IF Len(work.rows) = 0
    THEN [raised |-> "ValueError", frame |-> work]
    ELSE IF "Water_Usage_Liters" \notin work.columns
    THEN [raised |-> "KeyError", frame |-> work]
    ELSE LET w1 == SetCell(work, idx, "Water_Usage_Liters",
                           work.rows[idx]["Water_Usage_Liters"] + du)
         IN  IF "Pressure" \notin work.columns
             THEN [raised |-> "KeyError", frame |-> w1]
             ELSE LET w2 == SetCell(w1, idx, "Pressure", w1.rows[idx]["Pressure"] + dp)
                  IN  [raised |-> "none", frame |-> SetCell(w2, idx, "Date", now)]

generate_live_data_inplace(frame, idx, du, dp, now) ==
    LET b == live_data_body(frame, idx, du, dp, now)
    IN  Outcome(b.raised, IF b.raised = "none" THEN b.frame ELSE EmptyFrame, b.frame)

\* df = df.copy(): the statements work on a private copy
generate_live_data(frame, idx, du, dp, now) ==
    LET b == live_data_body(frame, idx, du, dp, now)
    IN  Outcome(b.raised, IF b.raised = "none" THEN b.frame ELSE EmptyFrame, frame)

(* --------------------- model/anomaly_detector.py ---------------------- *)

\* the raw scores a fitted model can give
RawScores == (0 - ScoreBound)..ScoreBound

\* df[['Water_Usage_Liters', 'Pressure']], one feature pair per row
Features(frame) ==
    [i \in 1..Len(frame.rows) |->
        <<frame.rows[i]["Water_Usage_Liters"], frame.rows[i]["Pressure"]>>]

FeatureSet(frame) ==
    IF FeatureColumns \subseteq frame.columns
    THEN {Features(frame)[i] : i \in 1..Len(frame.rows)}
    ELSE {}

\* model.decision_function(features) of a model fitted with a fixed seed: a
\* function of the feature pair, whatever the fit made it
DecisionFunctions(frame) == [FeatureSet(frame) -> RawScores]

\* model.fit_predict(features): -1 for an outlier (negative decision value)
Predict(score) == IF score < 0 THEN 0 - 1 ELSE 1

SeqMin(s) == CHOOSE x \in {s[i] : i \in DOMAIN s} : \A i \in DOMAIN s : x <= s[i]
SeqMax(s) == CHOOSE x \in {s[i] : i \in DOMAIN s} : \A i \in DOMAIN s : x >= s[i]

\* dividing by the data range as it is
handle_zeros_in_scale_raw(range) == range

\* MinMaxScaler replaces a zero data range by 1 before dividing.  The
\* arithmetic here is exact; the rounding of binary floating point is not
\* part of the model
handle_zeros_in_scale(range) == IF range = 0 THEN 1 ELSE range

\* scaling without the shift by the batch minimum
MinMax_noshift(x, lo, den) ==
    [num |-> RangeLo * den + x * (RangeHi - RangeLo), den |-> den]

\* one value of MinMaxScaler(feature_range=(RangeLo, RangeHi)).fit_transform:
\* RangeLo + (x - data_min) * (RangeHi - RangeLo) / den
MinMax(x, lo, den) ==
    [num |-> RangeLo * den + (x - lo) * (RangeHi - RangeLo), den |-> den]

\* the raw score scaled without being negated
risk_scores_unnegated(anomaly_score) ==
    LET data_min == SeqMin(anomaly_score)
        data_max == SeqMax(anomaly_score)
        den == handle_zeros_in_scale(data_max - data_min)
    IN  [i \in DOMAIN anomaly_score |-> MinMax(anomaly_score[i], data_min, den)]

\* a fixed global scale in place of the batch's own minimum and maximum
risk_scores_global(anomaly_score) ==
    LET neg == [i \in DOMAIN anomaly_score |-> 0 - anomaly_score[i]]
    IN  [i \in DOMAIN neg |-> MinMax(neg[i], 0 - (ScoreBound + 1), 2 * (ScoreBound + 1))]

\* scaler.fit_transform((-df['anomaly_score']).values.reshape(-1, 1))
risk_scores(anomaly_score) ==
    LET neg == [i \in DOMAIN anomaly_score |-> 0 - anomaly_score[i]]
        data_min == SeqMin(neg)
        data_max == SeqMax(neg)
        den == handle_zeros_in_scale(data_max - data_min)
    IN  [i \in DOMAIN neg |-> MinMax(neg[i], data_min, den)]

\* score >= k on fractions; every comparison with an undefined value is false
GE(score, k) == score.den > 0 /\ score.num >= k * score.den
GT(score, k) == score.den > 0 /\ score.num > k * score.den

risk_level_strict(score) ==
    IF GT(score, HighCut) THEN "High"
    ELSE IF GT(score, MediumCut) THEN "Medium"
    ELSE "Low"

risk_level(score) ==
    IF GE(score, HighCut) THEN "High"
    ELSE IF GE(score, MediumCut) THEN "Medium"
    ELSE "Low"

\* df['Risk_Level'] = df['risk_score'].apply(risk_level)
ApplyRiskLevel(frame) ==
    [columns |-> frame.columns \cup {"Risk_Level"},
     rows |-> [i \in DOMAIN frame.rows |->
                 [Risk_Level |-> risk_level(frame.rows[i]["risk_score"])]
                   @@ frame.rows[i]]]

ScoreColumns == {"anomaly", "anomaly_score", "risk_score"}

\* a fit that accepts any batch
fit_error_none(work) == "none"

\* model.fit_predict(features): no model is fitted on zero rows
fit_error(work) == IF Len(work.rows) = 0 THEN "ValueError" ELSE "none"

\* the body of detect_anomalies on the frame `work`, with `decision` the fitted
\* model's decision function
detect_body(work, decision) ==
    IF ~(FeatureColumns \subseteq work.columns)
    THEN [raised |-> "KeyError", frame |-> work]
    ELSE IF fit_error(work) # "none"
    THEN [raised |-> fit_error(work), frame |-> work]
    ELSE LET anomaly_score == [i \in 1..Len(work.rows) |-> decision[Features(work)[i]]]
             risk == risk_scores(anomaly_score)
             scored ==
                [columns |-> work.columns \cup ScoreColumns,
                 rows |-> [i \in 1..Len(work.rows) |->
                            [anomaly |-> Predict(anomaly_score[i]),
                             anomaly_score |-> anomaly_score[i],
                             risk_score |-> risk[i]] @@ work.rows[i]]]
         IN  [raised |-> "none", frame |-> ApplyRiskLevel(scored)]

detect_anomalies_inplace(frame, decision) ==
    LET b == detect_body(frame, decision)
    IN  Outcome(b.raised, IF b.raised = "none" THEN b.frame ELSE EmptyFrame, b.frame)

\* df = df.copy(): the columns are added to a private copy
detect_anomalies(frame, decision) ==
    LET b == detect_body(frame, decision)
    IN  Outcome(b.raised, IF b.raised = "none" THEN b.frame ELSE EmptyFrame, frame)

(* ------------------------------ app.py -------------------------------- *)

ActionHighTenths == 7
ActionMediumTenths == 4

RECURSIVE SumNum(_, _)
SumNum(rows, n) ==
    IF n = 0 THEN 0 ELSE rows[n]["risk_score"].num + SumNum(rows, n - 1)

\* processed_df[processed_df["Zone_ID"] == selected_zone]
ZoneData(frame, zone) == SelectSeq(frame.rows, LAMBDA r : r["Zone_ID"] = zone)

\* zone_data["risk_score"].mean(); the scores of one batch share their den
Mean(rows) ==
    IF Len(rows) = 0 THEN [num |-> 0, den |-> 0]
    ELSE [num |-> SumNum(rows, Len(rows)), den |-> Len(rows) * rows[1]["risk_score"].den]

\* avg_risk > t / 10
GTTenths(score, t) == score.den > 0 /\ 10 * score.num > t * score.den

\* the PREVENTIVE ACTIONS thresholds, compared as written: 0.7 and 0.4
preventive_action(avg_risk) ==
    IF GTTenths(avg_risk, ActionHighTenths) THEN "Inspect underground pipelines immediately"
    ELSE IF GTTenths(avg_risk, ActionMediumTenths) THEN "Increase pressure & flow monitoring"
    ELSE "Routine maintenance recommended"

\* an exception no statement of the page script catches ends the run
Crash(exc) ==
    /\ pc' = "crashed"
    /\ raised' = exc
    /\ rendered' = rendered \cup {"uncaught exception"}

\* df = pd.read_csv("data/water_usage.csv")
ReadCsv ==
    /\ pc = "load"
    /\ df' = csv
    /\ pc' = "inject"
    /\ UNCHANGED <<csv, processed_df, raised, selected_zone, action, rendered>>

\* df = generate_live_data(df)
InjectLive ==
    /\ pc = "inject"
    /\ \E idx \in (IF Len(df.rows) = 0 THEN {0} ELSE SampleIndex(df)),
          du \in UsageDeltas, dp \in PressureDeltas, now \in Now :
          LET out == generate_live_data(df, idx, du, dp, now)
          IN  IF out.raised = "none"
              THEN /\ df' = out.ret
                   /\ pc' = "score"
                   /\ UNCHANGED <<raised, rendered>>
              ELSE /\ df' = out.caller
                   /\ Crash(out.raised)
    /\ UNCHANGED <<csv, processed_df, selected_zone, action>>

\* processed_df = detect_anomalies(df)
Score ==
    /\ pc = "score"
    /\ \E decision \in DecisionFunctions(df) :
          LET out == detect_anomalies(df, decision)
          IN  /\ df' = out.caller
              /\ IF out.raised = "none"
                 THEN /\ processed_df' = out.ret
                      /\ pc' = "overview"
                      /\ UNCHANGED <<raised, rendered>>
                 ELSE /\ UNCHANGED processed_df
                      /\ Crash(out.raised)
    /\ UNCHANGED <<csv, selected_zone, action>>

\* KPI cards, the risk map (or its warning) and the insight alerts
RenderOverview ==
    /\ pc = "overview"
    /\ LET located == {i \in DOMAIN processed_df.rows :
                          processed_df.rows[i]["Zone_ID"] \in ZONE_LOCATIONS}
       IN  rendered' = rendered \cup {"kpi cards", "insights"}
                 \cup (IF located # {} THEN {"map"} ELSE {"No location data available"})
    /\ pc' = "select"
    /\ UNCHANGED <<csv, df, processed_df, raised, selected_zone, action>>

\* selected_zone = st.selectbox("Select Zone", processed_df["Zone_ID"].unique())
SelectZone ==
    /\ pc = "select"
    /\ \E z \in {processed_df.rows[i]["Zone_ID"] : i \in DOMAIN processed_df.rows} :
          selected_zone' = z
    /\ pc' = "actions"
    /\ rendered' = rendered \cup {"zone charts"}
    /\ UNCHANGED <<csv, df, processed_df, raised, action>>

\* the PREVENTIVE ACTIONS card
PreventiveAction ==
    /\ pc = "actions"
    /\ action' = preventive_action(Mean(ZoneData(processed_df, selected_zone)))
    /\ rendered' = rendered \cup {"recommended action"}
    /\ pc' = "done"
    /\ UNCHANGED <<csv, df, processed_df, raised, selected_zone>>

Init ==
    /\ pc = "load"
    /\ csv \in Tables
    /\ df = EmptyFrame
    /\ processed_df = EmptyFrame
    /\ raised = "none"
    /\ selected_zone = ""
    /\ action = ""
    /\ rendered = {}

Next ==
    \/ ReadCsv
    \/ InjectLive
    \/ Score
    \/ RenderOverview
    \/ SelectZone
    \/ PreventiveAction

Spec == Init /\ [][Next]_vars

(* ------------------- the two functions called on their own ------------ *)

UnitInit ==
    /\ pc = "call"
    /\ csv \in Tables
    /\ df = EmptyFrame
    /\ processed_df = EmptyFrame
    /\ raised = "none"
    /\ selected_zone = ""
    /\ action = ""
    /\ rendered = {}

\* generate_live_data(csv)
CallInject ==
    /\ pc = "call"
    /\ \E idx \in (IF Len(csv.rows) = 0 THEN {0} ELSE SampleIndex(csv)),
          du \in UsageDeltas, dp \in PressureDeltas, now \in Now :
          LET out == generate_live_data(csv, idx, du, dp, now)
          IN  /\ csv' = out.caller
              /\ df' = out.ret
              /\ raised' = out.raised
    /\ pc' = "injected"
    /\ UNCHANGED <<processed_df, selected_zone, action, rendered>>

\* detect_anomalies(csv)
CallDetect ==
    /\ pc = "call"
    /\ \E decision \in DecisionFunctions(csv) :
          LET out == detect_anomalies(csv, decision)
          IN  /\ csv' = out.caller
              /\ processed_df' = out.ret
              /\ raised' = out.raised
    /\ pc' = "scored"
    /\ UNCHANGED <<df, selected_zone, action, rendered>>

UnitNext == CallInject \/ CallDetect

SpecUnit == UnitInit /\ [][UnitNext]_vars

(* ------------------- the tier assignment on its own ------------------- *)

ProbeScores ==
    { [num |-> 1000 * i + j, den |-> 1000] :
        i \in RangeLo..RangeHi, j \in (0 - ProbeSpread)..ProbeSpread }

TierInit ==
    /\ pc = "apply"
    /\ \E s \in ProbeScores :
          /\ s.num >= RangeLo * s.den
          /\ s.num <= RangeHi * s.den
          /\ df = [columns |-> {"risk_score"}, rows |-> <<[risk_score |-> s]>>]
    /\ csv = EmptyFrame
    /\ processed_df = EmptyFrame
    /\ raised = "none"
    /\ selected_zone = ""
    /\ action = ""
    /\ rendered = {}

\* df['Risk_Level'] = df['risk_score'].apply(risk_level)
TierApply ==
    /\ pc = "apply"
    /\ processed_df' = ApplyRiskLevel(df)
    /\ pc' = "applied"
    /\ UNCHANGED <<csv, df, raised, selected_zone, action, rendered>>

TierNext == TierApply

SpecTier == TierInit /\ [][TierNext]_vars

(* ============================== claims =============================== *)

Frac(n) == [num |-> n, den |-> 1]

FracLT(a, b) == a.den > 0 /\ b.den > 0 /\ a.num * b.den < b.num * a.den
FracEQ(a, b) == a.den > 0 /\ b.den > 0 /\ a.num * b.den = b.num * a.den
FracLE(a, b) == FracLT(a, b) \/ FracEQ(a, b)

TierRank(level) == CASE level = "Low" -> 1 [] level = "Medium" -> 2 [] level = "High" -> 3

\* a call of detect_anomalies has returned a scored table
Scored == pc = "scored" /\ raised = "none"

RiskOf(i) == processed_df.rows[i]["risk_score"]
RawOf(i) == processed_df.rows[i]["anomaly_score"]
LevelOf(i) == processed_df.rows[i]["Risk_Level"]
ScoredRows == DOMAIN processed_df.rows

\* C1: the tier given to a risk_score in [0, 100] is High exactly when the
\* score is at least 70, Medium exactly when it is at least 40 and below 70,
\* Low exactly when it is below 40; 40 is Medium, 39.999 Low, 70 High and
\* 69.999 Medium.
C1_TierTotalExclusive ==
    pc = "applied" =>
        LET s == df.rows[1]["risk_score"]
            l == processed_df.rows[1]["Risk_Level"]
        IN  /\ l \in {"Low", "Medium", "High"}
            /\ (l = "High") <=> FracLE(Frac(70), s)
            /\ (l = "Medium") <=> (FracLE(Frac(40), s) /\ FracLT(s, Frac(70)))
            /\ (l = "Low") <=> FracLT(s, Frac(40))
            /\ (s = [num |-> 40000, den |-> 1000]) => l = "Medium"
            /\ (s = [num |-> 39999, den |-> 1000]) => l = "Low"
            /\ (s = [num |-> 70000, den |-> 1000]) => l = "High"
            /\ (s = [num |-> 69999, den |-> 1000]) => l = "Medium"

C1_Witness ==
    /\ pc = "applied"
    /\ df.rows[1]["risk_score"] = [num |-> 39999, den |-> 1000]
    /\ processed_df.rows[1]["Risk_Level"] = "Low"

\* C2: every risk_score of a table detect_anomalies returns is defined and
\* lies in the closed range 0 .. 100.
C2_RiskScoreInRange ==
    Scored => \A i \in ScoredRows :
                 FracLE(Frac(0), RiskOf(i)) /\ FracLE(RiskOf(i), Frac(100))

C2_Witness ==
    /\ Scored
    /\ \E i \in ScoredRows : FracLT(Frac(0), RiskOf(i)) /\ FracLT(RiskOf(i), Frac(100))
    /\ \E i \in ScoredRows : RawOf(i) > 0
    /\ \E i \in ScoredRows : RawOf(i) < 0

NonDegenerate == \E i, j \in ScoredRows : RawOf(i) # RawOf(j)

\* C3 as stated: in a batch with two distinct anomaly_score values the row of
\* the minimum anomaly_score has risk_score 0 and the row of the maximum 100.
C3_MinRawToZero ==
    (Scored /\ NonDegenerate) =>
        \A i \in ScoredRows :
            /\ (\A j \in ScoredRows : RawOf(i) <= RawOf(j)) => FracEQ(RiskOf(i), Frac(0))
            /\ (\A j \in ScoredRows : RawOf(i) >= RawOf(j)) => FracEQ(RiskOf(i), Frac(100))

\* C3 amended: in a batch with two distinct anomaly_score values the row of
\* the minimum anomaly_score has risk_score exactly 100 and the row of the
\* maximum anomaly_score has risk_score exactly 0.
C3_MinRawToHundred ==
    (Scored /\ NonDegenerate) =>
        \A i \in ScoredRows :
            /\ (\A j \in ScoredRows : RawOf(i) <= RawOf(j)) => FracEQ(RiskOf(i), Frac(100))
            /\ (\A j \in ScoredRows : RawOf(i) >= RawOf(j)) => FracEQ(RiskOf(i), Frac(0))

C3_Witness ==
    /\ Scored
    /\ Len(processed_df.rows) >= 3
    /\ \E i, j, k \in ScoredRows :
          /\ RawOf(i) < RawOf(k) /\ RawOf(k) < RawOf(j)
          /\ FracEQ(RiskOf(i), Frac(100))
          /\ FracEQ(RiskOf(j), Frac(0))

\* C4: within one scored batch a lower anomaly_score has a strictly higher
\* risk_score and no lower tier, and equal anomaly_scores have equal
\* risk_scores.
C4_RiskReversesRaw ==
    Scored =>
        \A i, j \in ScoredRows :
            /\ RawOf(i) < RawOf(j) =>
                  /\ FracLT(RiskOf(j), RiskOf(i))
                  /\ TierRank(LevelOf(i)) >= TierRank(LevelOf(j))
            /\ RawOf(i) = RawOf(j) =>
                  /\ FracEQ(RiskOf(i), RiskOf(j))
                  /\ LevelOf(i) = LevelOf(j)

C4_Witness ==
    /\ Scored
    /\ \E i, j, k \in ScoredRows :
          /\ i # k /\ RawOf(i) = RawOf(k)
          /\ RawOf(i) < RawOf(j)
          /\ LevelOf(i) = "High" /\ LevelOf(j) = "Low"

\* every row of the table holds the same usage and pressure
Flat(frame) ==
    /\ FeatureColumns \subseteq frame.columns
    /\ Len(frame.rows) >= 1
    /\ \A i, j \in DOMAIN frame.rows : Features(frame)[i] = Features(frame)[j]

\* C5: detect_anomalies on a batch whose rows all hold the same usage and
\* pressure (a one-row batch included) raises nothing and gives every row
\* the defined risk_score 0 and the tier Low.
C5_DegenerateBatchZero ==
    (pc = "scored" /\ Flat(csv)) =>
        /\ raised = "none"
        /\ Len(processed_df.rows) = Len(csv.rows)
        /\ \A i \in ScoredRows :
              /\ RiskOf(i).den > 0
              /\ RiskOf(i).num = 0
              /\ LevelOf(i) = "Low"

C5_Witness ==
    /\ pc = "scored"
    /\ Flat(csv)
    /\ Len(csv.rows) >= 2
    /\ \E i, j \in DOMAIN csv.rows : csv.rows[i]["Zone_ID"] # csv.rows[j]["Zone_ID"]
    /\ \A i \in ScoredRows : RiskOf(i) = [num |-> 0, den |-> 1]

MutatedColumns == {"Water_Usage_Liters", "Pressure", "Date"}

\* C6: generate_live_data on a table of n >= 1 readings (a table holding the
\* four input columns) returns n rows that
\* differ from the input in at most one row, there only in
\* Water_Usage_Liters, Pressure and Date, and leaves the caller's table as
\* it was.
C6_InjectorScope ==
    [][ (pc = "call" /\ pc' = "injected" /\ Len(csv.rows) >= 1
            /\ csv.columns = InputColumns) =>
          /\ raised' = "none"
          /\ csv' = csv
          /\ df'.columns = csv.columns
          /\ Len(df'.rows) = Len(csv.rows)
          /\ \E k \in DOMAIN csv.rows :
                /\ \A i \in DOMAIN csv.rows : i # k => df'.rows[i] = csv.rows[i]
                /\ \A c \in csv.columns \ MutatedColumns :
                      df'.rows[k][c] = csv.rows[k][c] ]_vars

C6_Witness ==
    /\ pc = "injected"
    /\ raised = "none"
    /\ Len(df.rows) = Len(csv.rows)
    /\ Len(df.rows) >= 2
    /\ \E k \in DOMAIN df.rows :
          /\ df.rows[k]["Water_Usage_Liters"] # csv.rows[k]["Water_Usage_Liters"]
          /\ df.rows[k]["Pressure"] # csv.rows[k]["Pressure"]
          /\ df.rows[k]["Date"] # csv.rows[k]["Date"]
          /\ \A i \in DOMAIN df.rows : i # k => df.rows[i] = csv.rows[i]

\* C7: detect_anomalies on a non-empty batch returns as many rows as it was
\* given, in the same order, every original column of every row unchanged,
\* the columns anomaly, anomaly_score, risk_score and Risk_Level added, and
\* leaves the caller's table as it was.
C7_ScoringPreservesBatch ==
    [][ (pc = "call" /\ pc' = "scored" /\ raised' = "none") =>
          /\ csv' = csv
          /\ Len(processed_df'.rows) = Len(csv.rows)
          /\ processed_df'.columns = csv.columns \cup ScoreColumns \cup {"Risk_Level"}
          /\ \A i \in DOMAIN csv.rows : \A c \in csv.columns :
                processed_df'.rows[i][c] = csv.rows[i][c] ]_vars

C7_Witness ==
    /\ Scored
    /\ Len(processed_df.rows) >= 3
    /\ csv.columns = InputColumns
    /\ \E i, j \in DOMAIN csv.rows : i < j /\ csv.rows[i] # csv.rows[j]
    /\ \A i \in DOMAIN csv.rows : Project(processed_df.rows[i], InputColumns) = csv.rows[i]

\* the calls C8 is about, seen as a step of the caller
FailingInject == pc = "call" /\ pc' = "injected" /\ Len(csv.rows) = 0
FailingDetectEmpty == pc = "call" /\ pc' = "scored" /\ Len(csv.rows) = 0
FailingDetectMissing ==
    pc = "call" /\ pc' = "scored" /\ ~(FeatureColumns \subseteq csv.columns)
NothingReturned == df' = EmptyFrame /\ processed_df' = EmptyFrame /\ csv' = csv

C9_FallbackOnFailure ==
    raised # "none" =>
        /\ pc # "crashed"
        /\ "uncaught exception" \notin rendered
        /\ "no data available" \in rendered

\* C10: the recommended action follows the tiers of the 0-100 scale: the
\* inspection only for a zone mean of at least 70, the monitoring only for a
\* mean of at least 40 and below 70, routine maintenance for a mean below 40
\* and for a zone whose rows are all Low.
C10_ActionMatchesTiers ==
    pc = "done" =>
        LET zone == ZoneData(processed_df, selected_zone)
            avg == Mean(zone)
        IN  /\ (action = "Inspect underground pipelines immediately") =>
                  FracLE(Frac(70), avg)
            /\ (action = "Increase pressure & flow monitoring") =>
                  (FracLE(Frac(40), avg) /\ FracLT(avg, Frac(70)))
            /\ FracLT(avg, Frac(40)) => action = "Routine maintenance recommended"
            /\ (\A i \in DOMAIN zone : zone[i]["Risk_Level"] = "Low") =>
                  action = "Routine maintenance recommended"

====
